---- MODULE Spec2Model ----
(***************************************************************************)
(* Usage metering and credit accounting of the voice-translation app:      *)
(* the Convex backend functions (convex/usageSessions.ts, convex/users.ts, *)
(* convex/payments.ts) and the client metering hook                        *)
(* (src/hooks/useTrackUsage.tsx).                                          *)
(*                                                                         *)
(* Money is counted in hundredths of a credit (0.05 credits = 5).  The      *)
(* session debits and deductCredits store Math.round(x * 100) / 100;       *)
(* confirmPayment and addCredits store an unrounded sum, which the next    *)
(* debit rounds.  The balance of the model is the stored double to the     *)
(* nearest hundredth; the doubles themselves are computed in the section   *)
(* on IEEE-754 doubles.                                                    *)
(*                                                                         *)
(* A Convex mutation runs as one serializable transaction: its reads and   *)
(* writes are atomic with respect to every other mutation, and a handler   *)
(* that throws commits none of its writes.  Each handler is an operator    *)
(* from the database to a transaction outcome [ok, err, db, ret]; db holds *)
(* the writes issued up to the return or the throw, and Commit keeps them  *)
(* only when the handler returned.                                         *)
(***************************************************************************)
EXTENDS Integers, Sequences, FiniteSets, TLC

\* ------------------------------------------------------------------ bounds
MaxSessions == 2        \* rows of usageSessions
MaxSeconds == 9         \* secondsUsed a tick may reach
MaxTime == 4            \* wall clock, in whole seconds
ClockStep == 4          \* seconds the wall clock moves on at a time
MaxPurchases == 1       \* rows of creditPurchases
MaxCredits == 6300      \* balance a credit may reach, in hundredths
MaxLedgerCalls == 1     \* deductCredits and addCredits calls issued
MaxStartCalls == 2      \* startTracking calls of the client
MaxQueue == 2           \* mutations of the client in flight

\* ------------------------------------------------------- program constants
minimumCharge == 5              \* usageSessions.ts:44   0.05 credits
minimumSeconds == 3             \* usageSessions.ts:59
endSessionFloor == 5            \* usageSessions.ts:96   Math.max(0.05, ...)
secondsPerCredit == 60          \* usageSessions.ts:145  secondsToAdd / 60
depletionCutoff == 15           \* useTrackUsage.tsx:137 creditsRemaining <= 0.15
startCreditsShown == 15         \* useTrackUsage.tsx:113 setSessionCreditsUsed(0.15)
tickSeconds == 3                \* useTrackUsage.tsx:124 secondsToAdd

\* ------------------------------------------------------------------ inputs
ClerkIds == {"u1", "nobody"}
Registered == {"u1"}                    \* identities that have a users row
HookUser == "u1"                        \* clerkUser.id of the signed-in client
InitCredits == {0, 4, 5, 12, 20, 200, 1000}
Names == {"Ann", "Bo"}                  \* name of a createOrUpdateUser call
TickSeconds == {3}                      \* secondsToAdd of a metering tick
DeductAmounts == {30}                   \* deductCredits args.credits, in thousandths
\* deductCredits args.credits in thousandths, none of them leaving a balance
\* halfway between two hundredths (where Math.round of the float is not fixed)
FineAmounts == {4, 30, 34, 46, 50, 124, 200, 2000}
AddAmounts == {10}                      \* addCredits args.credits
\* payments.ts:7-12 creditPackages, credits in hundredths and price in cents
creditPackages ==
  <<[credits |-> 1000, price |-> 150], [credits |-> 3000, price |-> 400],
    [credits |-> 6000, price |-> 700], [credits |-> 12000, price |-> 1300]>>
PackageIndexes == {1, 2}                \* packageIndex + 1 of a purchase
LedgerPackageIndexes == {1}             \* the package bought among the ledger mutations

VARIABLES users, sessions, purchases, now, last, ledgerCalls, metered,
          hook, timers, queue, startCalls

hookVars == <<hook, timers, queue, startCalls>>

vars == <<users, sessions, purchases, now, last, ledgerCalls, metered, hookVars>>

NoUser == [exists |-> FALSE]
NoRet == [none |-> TRUE]

\* The database a handler reads and writes through ctx.db.
DB == [users |-> users, sessions |-> sessions, purchases |-> purchases]

\* ctx.db.query("users").withIndex("by_clerk_id", ...).first()
getUser(db, clerkId) == db.users[clerkId]

\* activeSessionsOf reading the by_user index: the isActive key left out
activeSessionsOf_ByUser(db, clerkId) ==
  {i \in 1..Len(db.sessions) : db.sessions[i].userId = clerkId}

\* ctx.db.query("usageSessions").withIndex("by_active",
\*   q.eq("userId", user._id).eq("isActive", true)): the ids, in insertion order
activeSessionsOf(db, clerkId) ==
  {i \in 1..Len(db.sessions) :
     db.sessions[i].userId = clerkId /\ db.sessions[i].isActive}

\* .first() of the by_active query: the oldest matching row
firstActive(db, clerkId) ==
  CHOOSE i \in activeSessionsOf(db, clerkId) :
    \A j \in activeSessionsOf(db, clerkId) : i <= j

\* RoundCredits cutting off after two decimals
RoundCredits_Floor(seconds) == (10 * seconds) \div 6

\* Math.round((seconds / 60) * 100), in hundredths: 5*seconds/3 to the nearest
\* whole number (a tie x.5 would need 10*seconds = 6n+3, which has no solution)
RoundCredits(seconds) == (10 * seconds + 3) \div 6

\* RoundDebit charging a hundredth per second
RoundDebit_PerSecond(credits, secondsToAdd) == credits - secondsToAdd

\* Math.round((credits - secondsToAdd / 60) * 100), in hundredths
RoundDebit(credits, secondsToAdd) == (6 * credits - 10 * secondsToAdd + 3) \div 6

patchUserCredits(db, clerkId, c) ==
  [db EXCEPT !.users[clerkId].credits = c]

Thrown(db, e) == [ok |-> FALSE, err |-> e, db |-> db, ret |-> NoRet]
Returned(db, r) == [ok |-> TRUE, err |-> "", db |-> db, ret |-> r]

\* Commit keeping the writes a handler issued before it threw
Commit_KeepWrites(db, txn) == txn.db

\* The transaction boundary of mutation({handler}): a throw discards the writes.
Commit(db, txn) == IF txn.ok THEN txn.db ELSE db

\* ------------------------------------------------ convex/usageSessions.ts

\* closeActiveSessions with the loop over the active sessions left out
closeActiveSessions_Skip(db, clerkId, t) == db

\* closeActiveSessions patching isActive alone, endedAt left unset
closeActiveSessions_NoEndedAt(db, clerkId, t) ==
  [db EXCEPT !.sessions =
     [i \in 1..Len(db.sessions) |->
        IF i \in activeSessionsOf(db, clerkId)
          THEN [db.sessions[i] EXCEPT !.isActive = FALSE]
          ELSE db.sessions[i]]]

\* for (const session of activeSessions) patch {isActive: false, endedAt: now}
closeActiveSessions(db, clerkId, t) ==
  [db EXCEPT !.sessions =
     [i \in 1..Len(db.sessions) |->
        IF i \in activeSessionsOf(db, clerkId)
          THEN [db.sessions[i] EXCEPT !.isActive = FALSE, !.endedAt = {t}]
          ELSE db.sessions[i]]]

\* newSession without the minimum charge recorded on the row
newSession_Zero(clerkId, t) ==
  [userId |-> clerkId, creditsUsed |-> 0, secondsUsed |-> 0,
   startedAt |-> t, endedAt |-> {}, isActive |-> TRUE]

\* the row startSession inserts; endedAt is an optional field, {} when unset
newSession(clerkId, t) ==
  [userId |-> clerkId, creditsUsed |-> minimumCharge, secondsUsed |-> minimumSeconds,
   startedAt |-> t, endedAt |-> {}, isActive |-> TRUE]

\* startSession without the debit of lines 50-53
startSession_NoCharge(db, clerkId, t) ==
  LET user == getUser(db, clerkId) IN
  IF ~user.exists THEN Thrown(db, "User not found")
  ELSE IF user.credits <= 0 THEN Thrown(db, "Insufficient credits")
  ELSE
    LET db1 == closeActiveSessions(db, clerkId, t) IN
    IF user.credits < minimumCharge
      THEN Thrown(db1, "Insufficient credits. Minimum 0.05 credits required")
      ELSE
        LET db3 == [db1 EXCEPT !.sessions = Append(@, newSession(clerkId, t))]
        IN Returned(db3, [sessionId |-> Len(db3.sessions)])

\* startSession without the check of lines 45-47 against minimumCharge
startSession_NoMinimumCheck(db, clerkId, t) ==
  LET user == getUser(db, clerkId) IN
  IF ~user.exists THEN Thrown(db, "User not found")
  ELSE IF user.credits <= 0 THEN Thrown(db, "Insufficient credits")
  ELSE
    LET db1 == closeActiveSessions(db, clerkId, t)
        db2 == patchUserCredits(db1, clerkId, user.credits - minimumCharge)
        db3 == [db2 EXCEPT !.sessions = Append(@, newSession(clerkId, t))]
    IN Returned(db3, [sessionId |-> Len(db3.sessions)])

startSession(db, clerkId, t) ==
  LET user == getUser(db, clerkId) IN
  IF ~user.exists THEN Thrown(db, "User not found")
  ELSE IF user.credits <= 0 THEN Thrown(db, "Insufficient credits")
  ELSE
    LET db1 == closeActiveSessions(db, clerkId, t) IN
    IF user.credits < minimumCharge
      THEN Thrown(db1, "Insufficient credits. Minimum 0.05 credits required")
      ELSE
        LET db2 == patchUserCredits(db1, clerkId, user.credits - minimumCharge)
            db3 == [db2 EXCEPT !.sessions = Append(@, newSession(clerkId, t))]
        IN Returned(db3, [sessionId |-> Len(db3.sessions)])

Max(a, b) == IF a >= b THEN a ELSE b

\* endSession finalizing from the stored secondsUsed alone, no wall clock
endSession_StoredOnly(db, sessionId, t) ==
  IF sessionId \notin 1..Len(db.sessions) THEN Thrown(db, "Session not found")
  ELSE
    LET session == db.sessions[sessionId] IN
    IF ~session.isActive THEN Returned(db, NoRet)
    ELSE
      LET totalSecondsUsed == session.secondsUsed
          finalCreditsUsed == Max(endSessionFloor, RoundCredits(totalSecondsUsed))
          db1 == [db EXCEPT !.sessions[sessionId] =
                    [@ EXCEPT !.isActive = FALSE, !.endedAt = {t},
                              !.secondsUsed = totalSecondsUsed,
                              !.creditsUsed = finalCreditsUsed]]
      IN Returned(db1, [creditsUsed |-> finalCreditsUsed,
                        secondsUsed |-> totalSecondsUsed,
                        duration |-> t - session.startedAt])

\* endSession debiting the account by what the reconciliation added
endSession_SettlesBalance(db, sessionId, t) ==
  IF sessionId \notin 1..Len(db.sessions) THEN Thrown(db, "Session not found")
  ELSE
    LET session == db.sessions[sessionId] IN
    IF ~session.isActive THEN Returned(db, NoRet)
    ELSE
      LET actualSecondsUsed == t - session.startedAt
          totalSecondsUsed == Max(actualSecondsUsed, session.secondsUsed)
          finalCreditsUsed == Max(endSessionFloor, RoundCredits(totalSecondsUsed))
          db1 == [db EXCEPT !.sessions[sessionId] =
                    [@ EXCEPT !.isActive = FALSE, !.endedAt = {t},
                              !.secondsUsed = totalSecondsUsed,
                              !.creditsUsed = finalCreditsUsed]]
          db2 == [db1 EXCEPT !.users[session.userId].credits =
                    @ - (finalCreditsUsed - session.creditsUsed)]
      IN Returned(db2, [creditsUsed |-> finalCreditsUsed,
                        secondsUsed |-> totalSecondsUsed,
                        duration |-> t - session.startedAt])

\* endSession without the early return of lines 81-83
endSession_NoActiveCheck(db, sessionId, t) ==
  IF sessionId \notin 1..Len(db.sessions) THEN Thrown(db, "Session not found")
  ELSE
    LET session == db.sessions[sessionId]
        actualSecondsUsed == t - session.startedAt
        totalSecondsUsed == Max(actualSecondsUsed, session.secondsUsed)
        finalCreditsUsed == Max(endSessionFloor, RoundCredits(totalSecondsUsed))
        db1 == [db EXCEPT !.sessions[sessionId] =
                  [@ EXCEPT !.isActive = FALSE, !.endedAt = {t},
                            !.secondsUsed = totalSecondsUsed,
                            !.creditsUsed = finalCreditsUsed]]
    IN Returned(db1, [creditsUsed |-> finalCreditsUsed,
                      secondsUsed |-> totalSecondsUsed,
                      duration |-> t - session.startedAt])

\* Math.floor((Date.now() - session.startedAt) / 1000) with the clock in whole
\* seconds; session.secondsUsed || 0 is the stored value, which is never absent
endSession(db, sessionId, t) ==
  IF sessionId \notin 1..Len(db.sessions) THEN Thrown(db, "Session not found")
  ELSE
    LET session == db.sessions[sessionId] IN
    IF ~session.isActive THEN Returned(db, NoRet)
    ELSE
      LET actualSecondsUsed == t - session.startedAt
          totalSecondsUsed == Max(actualSecondsUsed, session.secondsUsed)
          finalCreditsUsed == Max(endSessionFloor, RoundCredits(totalSecondsUsed))
          db1 == [db EXCEPT !.sessions[sessionId] =
                    [@ EXCEPT !.isActive = FALSE, !.endedAt = {t},
                              !.secondsUsed = totalSecondsUsed,
                              !.creditsUsed = finalCreditsUsed]]
      IN Returned(db1, [creditsUsed |-> finalCreditsUsed,
                        secondsUsed |-> totalSecondsUsed,
                        duration |-> t - session.startedAt])

\* updateFractionalCredits ending the session by a return where line 167 throws
updateFractionalCredits_EndWithoutThrow(db, clerkId, secondsToAdd, t) ==
  LET user == getUser(db, clerkId) IN
  IF ~user.exists THEN Thrown(db, "User not found")
  ELSE IF activeSessionsOf(db, clerkId) = {} THEN Thrown(db, "No active session found")
  ELSE
    LET sid == firstActive(db, clerkId)
        activeSession == db.sessions[sid]
        newSecondsUsed == activeSession.secondsUsed + secondsToAdd
        newCreditsUsed == RoundCredits(newSecondsUsed)
    IN
    IF secondsPerCredit * user.credits < 100 * secondsToAdd
      THEN
        LET db1 == [db EXCEPT !.sessions[sid] =
                      [@ EXCEPT !.isActive = FALSE, !.endedAt = {t},
                                !.secondsUsed = newSecondsUsed,
                                !.creditsUsed = newCreditsUsed]]
            db2 == patchUserCredits(db1, clerkId, 0)
        IN Returned(db2, NoRet)
      ELSE
        LET newBalance == RoundDebit(user.credits, secondsToAdd)
            db1 == patchUserCredits(db, clerkId, newBalance)
            db2 == [db1 EXCEPT !.sessions[sid] =
                      [@ EXCEPT !.secondsUsed = newSecondsUsed,
                                !.creditsUsed = newCreditsUsed]]
        IN Returned(db2, [creditsRemaining |-> newBalance,
                          sessionCreditsUsed |-> newCreditsUsed,
                          secondsUsed |-> newSecondsUsed])

\* updateFractionalCredits debiting the account without the session patch of
\* lines 183-186
updateFractionalCredits_DebitOnly(db, clerkId, secondsToAdd, t) ==
  LET user == getUser(db, clerkId) IN
  IF ~user.exists THEN Thrown(db, "User not found")
  ELSE IF activeSessionsOf(db, clerkId) = {} THEN Thrown(db, "No active session found")
  ELSE
    LET sid == firstActive(db, clerkId)
        activeSession == db.sessions[sid]
        newSecondsUsed == activeSession.secondsUsed + secondsToAdd
        newCreditsUsed == RoundCredits(newSecondsUsed)
    IN
    IF secondsPerCredit * user.credits < 100 * secondsToAdd
      THEN Thrown(db, "Insufficient credits - session ended")
      ELSE
        LET newBalance == RoundDebit(user.credits, secondsToAdd)
            db1 == patchUserCredits(db, clerkId, newBalance)
        IN Returned(db1, [creditsRemaining |-> newBalance,
                          sessionCreditsUsed |-> newCreditsUsed,
                          secondsUsed |-> newSecondsUsed])

updateFractionalCredits(db, clerkId, secondsToAdd, t) ==
  LET user == getUser(db, clerkId) IN
  IF ~user.exists THEN Thrown(db, "User not found")
  ELSE IF activeSessionsOf(db, clerkId) = {} THEN Thrown(db, "No active session found")
  ELSE
    LET sid == firstActive(db, clerkId)
        activeSession == db.sessions[sid]
        newSecondsUsed == activeSession.secondsUsed + secondsToAdd
        newCreditsUsed == RoundCredits(newSecondsUsed)
    IN
    \* user.credits < secondsToAdd / 60, both sides times 6000
    IF secondsPerCredit * user.credits < 100 * secondsToAdd
      THEN
        LET db1 == [db EXCEPT !.sessions[sid] =
                      [@ EXCEPT !.isActive = FALSE, !.endedAt = {t},
                                !.secondsUsed = newSecondsUsed,
                                !.creditsUsed = newCreditsUsed]]
            db2 == patchUserCredits(db1, clerkId, 0)
        IN Thrown(db2, "Insufficient credits - session ended")
      ELSE
        LET newBalance == RoundDebit(user.credits, secondsToAdd)
            db1 == patchUserCredits(db, clerkId, newBalance)
            db2 == [db1 EXCEPT !.sessions[sid] =
                      [@ EXCEPT !.secondsUsed = newSecondsUsed,
                                !.creditsUsed = newCreditsUsed]]
        IN Returned(db2, [creditsRemaining |-> newBalance,
                          sessionCreditsUsed |-> newCreditsUsed,
                          secondsUsed |-> newSecondsUsed])

\* ------------------------------------------------------- convex/users.ts

\* credits: 10 of a new users row (users.ts:32), in hundredths
freeCredits == 1000

\* createOrUpdateUser patching credits back to the grant on an existing row
createOrUpdateUser_Regrant(db, clerkId, name) ==
  LET existingUser == getUser(db, clerkId) IN
  Returned([db EXCEPT !.users[clerkId] =
              [exists |-> TRUE, credits |-> freeCredits,
               totalCreditsEverPurchased |->
                 IF existingUser.exists THEN existingUser.totalCreditsEverPurchased
                                        ELSE 0,
               name |-> name]],
           [userId |-> clerkId])

\* Of the fields the handler writes the model keeps name; email is patched
\* like name, and lastActive is kept nowhere in the model.  A users row is
\* identified by its clerkId.
createOrUpdateUser(db, clerkId, name) ==
  LET existingUser == getUser(db, clerkId) IN
  IF existingUser.exists
    THEN Returned([db EXCEPT !.users[clerkId].name = name], [userId |-> clerkId])
    ELSE Returned([db EXCEPT !.users[clerkId] =
                     [exists |-> TRUE, credits |-> freeCredits,
                      totalCreditsEverPurchased |-> 0, name |-> name]],
                  [userId |-> clerkId])

\* Math.round((credits - amount) * 100), in hundredths, for a balance in
\* hundredths and an amount in thousandths of a credit: the nearest hundredth,
\* a half rounded up
RoundBalance(credits, amount) == (10 * credits - amount + 5) \div 10

\* deductCredits without the check of lines 105-107: reading user.credits of
\* null throws a TypeError
deductCredits_NoUserCheck(db, clerkId, amount) ==
  LET user == getUser(db, clerkId) IN
  IF ~user.exists THEN Thrown(db, "TypeError: Cannot read properties of null")
  ELSE IF 10 * user.credits < amount THEN Thrown(db, "Insufficient credits")
  ELSE
    LET newBalance == RoundBalance(user.credits, amount) IN
    Returned(patchUserCredits(db, clerkId, newBalance), [newBalance |-> newBalance])

\* deductCredits without the check of lines 109-111
deductCredits_NoCheck(db, clerkId, amount) ==
  LET user == getUser(db, clerkId) IN
  IF ~user.exists THEN Thrown(db, "User not found")
  ELSE
    LET newBalance == RoundBalance(user.credits, amount) IN
    Returned(patchUserCredits(db, clerkId, newBalance), [newBalance |-> newBalance])

\* deductCredits cutting the new balance off after two decimals
deductCredits_Truncate(db, clerkId, amount) ==
  LET user == getUser(db, clerkId) IN
  IF ~user.exists THEN Thrown(db, "User not found")
  ELSE IF 10 * user.credits < amount THEN Thrown(db, "Insufficient credits")
  ELSE
    LET newBalance == (10 * user.credits - amount) \div 10 IN
    Returned(patchUserCredits(db, clerkId, newBalance), [newBalance |-> newBalance])

\* args.credits is any number: amount is in thousandths of a credit, so that
\* the rounding of line 114 has something to round
deductCredits(db, clerkId, amount) ==
  LET user == getUser(db, clerkId) IN
  IF ~user.exists THEN Thrown(db, "User not found")
  ELSE IF 10 * user.credits < amount THEN Thrown(db, "Insufficient credits")
  ELSE
    LET newBalance == RoundBalance(user.credits, amount) IN
    Returned(patchUserCredits(db, clerkId, newBalance), [newBalance |-> newBalance])

\* addCredits patching credits alone, totalCreditsEverPurchased left as it is
addCredits_BalanceOnly(db, clerkId, amount) ==
  LET user == getUser(db, clerkId) IN
  IF ~user.exists THEN Thrown(db, "User not found")
  ELSE
    Returned([db EXCEPT !.users[clerkId].credits = @ + amount],
             [newBalance |-> user.credits + amount])

addCredits(db, clerkId, amount) ==
  LET user == getUser(db, clerkId) IN
  IF ~user.exists THEN Thrown(db, "User not found")
  ELSE
    Returned([db EXCEPT !.users[clerkId].credits = @ + amount,
                        !.users[clerkId].totalCreditsEverPurchased = @ + amount],
             [newBalance |-> user.credits + amount])

\* ---------------------------------------------------- convex/payments.ts

createPurchaseRecord(db, userId, amount, credits) ==
  LET db1 == [db EXCEPT !.purchases =
                Append(@, [userId |-> userId, amount |-> amount,
                           credits |-> credits, status |-> "pending"])]
  IN Returned(db1, [purchaseId |-> Len(db1.purchases)])

\* confirmPayment without the status check of lines 84-86
confirmPayment_NoStatusCheck(db, purchaseId) ==
  IF purchaseId \notin 1..Len(db.purchases) THEN Thrown(db, "Purchase not found")
  ELSE
    LET purchase == db.purchases[purchaseId]
        db1 == [db EXCEPT !.purchases[purchaseId].status = "completed"]
        user == db1.users[purchase.userId]
    IN
    IF ~user.exists THEN Thrown(db1, "User not found")
    ELSE
      Returned([db1 EXCEPT
                  !.users[purchase.userId].credits = @ + purchase.credits,
                  !.users[purchase.userId].totalCreditsEverPurchased =
                     @ + purchase.credits],
               [newBalance |-> user.credits + purchase.credits,
                creditsAdded |-> purchase.credits])

\* confirmPayment patching credits alone, totalCreditsEverPurchased left as it is
confirmPayment_BalanceOnly(db, purchaseId) ==
  IF purchaseId \notin 1..Len(db.purchases) THEN Thrown(db, "Purchase not found")
  ELSE
    LET purchase == db.purchases[purchaseId] IN
    IF purchase.status = "completed" THEN Thrown(db, "Purchase already completed")
    ELSE
      LET db1 == [db EXCEPT !.purchases[purchaseId].status = "completed"]
          user == db1.users[purchase.userId]
      IN
      IF ~user.exists THEN Thrown(db1, "User not found")
      ELSE
        Returned([db1 EXCEPT
                    !.users[purchase.userId].credits = @ + purchase.credits],
                 [newBalance |-> user.credits + purchase.credits,
                  creditsAdded |-> purchase.credits])

confirmPayment(db, purchaseId) ==
  IF purchaseId \notin 1..Len(db.purchases) THEN Thrown(db, "Purchase not found")
  ELSE
    LET purchase == db.purchases[purchaseId] IN
    IF purchase.status = "completed" THEN Thrown(db, "Purchase already completed")
    ELSE
      LET db1 == [db EXCEPT !.purchases[purchaseId].status = "completed"]
          user == db1.users[purchase.userId]
      IN
      IF ~user.exists THEN Thrown(db1, "User not found")
      ELSE
        Returned([db1 EXCEPT
                    !.users[purchase.userId].credits = @ + purchase.credits,
                    !.users[purchase.userId].totalCreditsEverPurchased =
                       @ + purchase.credits],
                 [newBalance |-> user.credits + purchase.credits,
                  creditsAdded |-> purchase.credits])

markPaymentFailed(db, purchaseId) ==
  IF purchaseId \notin 1..Len(db.purchases)
    THEN Thrown(db, "patch of a missing document")
    ELSE Returned([db EXCEPT !.purchases[purchaseId].status = "failed"], NoRet)

\* ------------------------------------------------------ IEEE-754 doubles
\* credits is a JavaScript number.  A double that is not negative and below
\* 2^IntBits is written as its binary expansion: a sequence of IntBits bits
\* before the point and FracBits bits after it, most significant first, of
\* which only the Significand places from the leading 1 on can be set.
IntBits == 14
FracBits == 64
Width == IntBits + FracBits
Significand == 53

Zeros(n) == [i \in 1..n |-> 0]

\* 2^j modulo 100: from j = 2 on the residues repeat with period 20
\* (2^20 = 1 modulo 25)
Pow2Mod100(j) == IF j < 2 THEN 2^j ELSE (2^(2 + ((j - 2) % 20))) % 100

\* what is left of r / 100 after its first w binary places, times 100 * 2^w
FractionRest(r, w) == (r * Pow2Mod100(w)) % 100

\* the binary expansion of hundredths / 100, cut off after FracBits places:
\* the digits of the whole part, then those of the long division by 100
Expansion(hundredths) ==
  [i \in 1..Width |->
     IF i <= IntBits
       THEN ((hundredths \div 100) \div 2^(IntBits - i)) % 2
       ELSE (2 * FractionRest(hundredths % 100, i - IntBits - 1)) \div 100]

\* bits plus one unit of the place at: the carry runs up to the nearest 0
Increment(bits, at) ==
  LET zero == CHOOSE i \in 1..at : bits[i] = 0 /\ \A j \in (i + 1)..at : bits[j] = 1
  IN SubSeq(bits, 1, zero - 1) \o <<1>> \o Zeros(at - zero) \o SubSeq(bits, at + 1, Width)

\* Rounding to the nearest double, a tie to the even significand: bits is the
\* expansion of the exact value cut off after FracBits places, sticky tells
\* whether anything was cut off.
RoundToDouble(bits, sticky) ==
  LET ones == {i \in 1..Width : bits[i] = 1} IN
  IF ones = {} THEN bits
  ELSE
    LET lead == CHOOSE i \in ones : \A j \in ones : i <= j
        lastKept == lead + Significand - 1
    IN
    IF lastKept >= Width THEN bits
    ELSE
      LET guard == bits[lastKept + 1]
          below == sticky \/ \E i \in (lastKept + 2)..Width : bits[i] = 1
          kept == SubSeq(bits, 1, lastKept) \o Zeros(Width - lastKept)
      IN IF guard = 1 /\ (below \/ bits[lastKept] = 1)
           THEN Increment(kept, lastKept)
           ELSE kept

\* hundredths / 100 as JavaScript evaluates it: the double nearest to the
\* quotient, which is also what Math.round(x * 100) / 100 leaves
Double(hundredths) ==
  RoundToDouble(Expansion(hundredths), FractionRest(hundredths % 100, FracBits) # 0)

\* whether a + b carries out of the places i..Width: some place generates a
\* carry (both bits set) and every place above it up to i passes it on
Carry(a, b, i) ==
  \E m \in i..Width :
    /\ a[m] = 1 /\ b[m] = 1
    /\ \A n \in i..(m - 1) : a[n] # b[n]

\* the exact sum of two expansions
ExactSum(a, b) ==
  [i \in 1..Width |->
     (a[i] + b[i] + (IF Carry(a, b, i + 1) THEN 1 ELSE 0)) % 2]

\* a + b of two doubles: the exact sum, rounded to the nearest double
FloatAdd(a, b) == RoundToDouble(ExactSum(a, b), FALSE)

\* user.credits + purchase.credits of confirmPayment (payments.ts:102), for a
\* stored balance that is the double nearest to credits hundredths: the value
\* written to the users row
creditedBalance(credits, purchaseCredits) ==
  FloatAdd(Double(credits), Double(purchaseCredits))

\* -------------------------------------------------------------- the store

\* History of the latest started session of an account, kept while nothing
\* but the session's own 3-second ticks has touched the balance since the
\* start (clean): the balance before the start and the ticks applied since.
\* Any other debit, credit or purchase ends the record.
NotMetered == [sessionId |-> 0, startBalance |-> 0, ticks |-> 0, clean |-> FALSE]

Metered(op, args, txn) ==
  IF ~txn.ok THEN metered
  ELSE IF op = "startSession"
    THEN [metered EXCEPT ![args.clerkId] =
            [sessionId |-> txn.ret.sessionId,
             startBalance |-> users[args.clerkId].credits,
             ticks |-> 0, clean |-> TRUE]]
  ELSE IF op = "updateFractionalCredits"
    THEN [metered EXCEPT ![args.clerkId] =
            IF @.clean /\ args.secondsToAdd = tickSeconds
              THEN [@ EXCEPT !.ticks = @ + 1]
              ELSE NotMetered]
  ELSE IF op \in {"deductCredits", "addCredits"}
    THEN [metered EXCEPT ![args.clerkId] = NotMetered]
  ELSE IF op = "confirmPayment"
    THEN [metered EXCEPT ![purchases[args.purchaseId].userId] = NotMetered]
  ELSE metered

Init ==
  /\ users \in [ClerkIds ->
       {NoUser} \cup [exists : {TRUE}, credits : InitCredits,
                      totalCreditsEverPurchased : {0}, name : {"Ann"}]]
  /\ \A c \in ClerkIds : users[c].exists <=> c \in Registered
  /\ sessions = <<>>
  /\ purchases = <<>>
  /\ now = 0
  /\ ledgerCalls = 0
  /\ metered = [c \in ClerkIds |-> NotMetered]
  /\ hook = [sessionId |-> 0, isTracking |-> FALSE, sessionCreditsUsed |-> 0,
             sessionSecondsUsed |-> 0, intervalRef |-> 0,
             rSessionId |-> 0, rIsTracking |-> FALSE]
  /\ timers = {}
  /\ queue = <<>>
  /\ startCalls = 0
  /\ last = [op |-> "init", ok |-> TRUE, err |-> "", ret |-> NoRet]

\* A mutation executed by the backend: its committed writes and its outcome.
Apply(op, args, txn) ==
  LET db == Commit(DB, txn) IN
  /\ metered' = Metered(op, args, txn)
  /\ users' = db.users
  /\ sessions' = db.sessions
  /\ purchases' = db.purchases
  /\ last' = [op |-> op, args |-> args, ok |-> txn.ok, err |-> txn.err,
              ret |-> txn.ret]
  /\ UNCHANGED now

\* Date.now() moves on between two mutations
AdvanceClock ==
  /\ now + ClockStep <= MaxTime
  /\ now' = now + ClockStep
  /\ last' = [op |-> "clock", ok |-> TRUE, err |-> "", ret |-> NoRet]
  /\ UNCHANGED <<users, sessions, purchases, ledgerCalls, metered, hookVars>>

StartSession ==
  \E c \in ClerkIds :
    /\ Len(sessions) < MaxSessions
    /\ UNCHANGED <<ledgerCalls, hookVars>>
    /\ Apply("startSession", [clerkId |-> c], startSession(DB, c, now))

EndSession ==
  \E sid \in 1..MaxSessions :
    /\ UNCHANGED <<ledgerCalls, hookVars>>
    /\ Apply("endSession", [sessionId |-> sid], endSession(DB, sid, now))

UpdateFractionalCredits ==
  \E c \in ClerkIds, secs \in TickSeconds :
    /\ \A i \in activeSessionsOf(DB, c) : sessions[i].secondsUsed + secs <= MaxSeconds
    /\ UNCHANGED <<ledgerCalls, hookVars>>
    /\ Apply("updateFractionalCredits", [clerkId |-> c, secondsToAdd |-> secs],
             updateFractionalCredits(DB, c, secs, now))

\* a deductCredits call with its amount drawn from amounts
DeductCreditsOf(amounts) ==
  \E c \in ClerkIds, a \in amounts :
    /\ ledgerCalls < MaxLedgerCalls
    /\ ledgerCalls' = ledgerCalls + 1
    /\ UNCHANGED hookVars
    /\ Apply("deductCredits", [clerkId |-> c, credits |-> a], deductCredits(DB, c, a))

\* a debit of whole hundredths, among the other balance mutations
DeductCredits == DeductCreditsOf(DeductAmounts)

\* a debit of any amount
DeductAnyCredits == DeductCreditsOf(FineAmounts)

AddCredits ==
  \E c \in ClerkIds, a \in AddAmounts :
    /\ ledgerCalls < MaxLedgerCalls
    /\ ledgerCalls' = ledgerCalls + 1
    /\ UNCHANGED hookVars
    /\ Apply("addCredits", [clerkId |-> c, credits |-> a], addCredits(DB, c, a))

\* a sign-in of the identity c: useCurrentUser's effect calls createOrUpdateUser
CreateOrUpdateUser ==
  \E c \in ClerkIds, n \in Names :
    /\ UNCHANGED <<ledgerCalls, hookVars>>
    /\ Apply("createOrUpdateUser", [clerkId |-> c, name |-> n],
             createOrUpdateUser(DB, c, n))

\* a createPurchaseRecord call for a package drawn from packages
CreatePurchaseRecordOf(packages) ==
  \E c \in Registered, k \in packages :
    /\ Len(purchases) < MaxPurchases
    /\ UNCHANGED <<ledgerCalls, hookVars>>
    /\ Apply("createPurchaseRecord", [userId |-> c, packageIndex |-> k],
             createPurchaseRecord(DB, c, creditPackages[k].price,
                                  creditPackages[k].credits))

CreatePurchaseRecord == CreatePurchaseRecordOf(PackageIndexes)

\* a purchase of the 10-credit package, among the other balance mutations
CreateSmallestPurchase == CreatePurchaseRecordOf(LedgerPackageIndexes)

ConfirmPayment ==
  \E p \in 1..MaxPurchases :
    /\ Commit(DB, confirmPayment(DB, p)).users["u1"].credits <= MaxCredits
    /\ UNCHANGED <<ledgerCalls, hookVars>>
    /\ Apply("confirmPayment", [purchaseId |-> p], confirmPayment(DB, p))

MarkPaymentFailed ==
  \E p \in 1..MaxPurchases :
    /\ UNCHANGED <<ledgerCalls, hookVars>>
    /\ Apply("markPaymentFailed", [purchaseId |-> p], markPaymentFailed(DB, p))

\* The session lifecycle: start, tick, end, and the passing of time.
Next ==
  \/ AdvanceClock
  \/ StartSession
  \/ EndSession
  \/ UpdateFractionalCredits

Spec == Init /\ [][Next]_vars

\* Every balance mutation of the backend, in any interleaving.
NextLedger ==
  \/ StartSession
  \/ EndSession
  \/ UpdateFractionalCredits
  \/ DeductCredits
  \/ AddCredits
  \/ CreateSmallestPurchase
  \/ ConfirmPayment

SpecLedger == Init /\ [][NextLedger]_vars

\* One debit of the ledger, of any amount on any balance.
NextDebit == DeductAnyCredits

SpecDebit == Init /\ [][NextDebit]_vars

\* Sign-ins of known and unknown identities, and a debit between them.
NextUsers ==
  \/ CreateOrUpdateUser
  \/ DeductAnyCredits

SpecUsers == Init /\ [][NextUsers]_vars

\* The life of a purchase: created, confirmed, marked failed, in any order.
NextPayments ==
  \/ CreatePurchaseRecord
  \/ ConfirmPayment
  \/ MarkPaymentFailed

SpecPayments == Init /\ [][NextPayments]_vars

\* -------------------------------------------- src/hooks/useTrackUsage.tsx
\* One client, signed in as HookUser.  hook holds the React state (sessionId,
\* isTracking, sessionCreditsUsed, sessionSecondsUsed; 0 stands for null), the
\* ref intervalRef, and rSessionId / rIsTracking: the values of sessionId and
\* isTracking that the callbacks of the last committed render closed over.
\* timers holds the live intervals, each with the sessionId its callback's
\* stopTracking closed over.  queue holds the client's mutations in flight:
\* the Convex client sends them over one connection, the backend runs them in
\* the order sent and their promises settle in that order.

dbVars == <<users, sessions, purchases, now, ledgerCalls, metered>>

Request(kind, id, capSid, sid, notify) ==
  [kind |-> kind, id |-> id, capSid |-> capSid, sid |-> sid, notify |-> notify,
   served |-> FALSE, ok |-> FALSE, err |-> "", ret |-> NoRet]

\* clearInterval(intervalRef.current)
clearIntervalRef(tm, h) == {t \in tm : t.id # h.intervalRef}

\* setIsTracking(false); setSessionId(null); setSessionCreditsUsed(0); ...
resetState(h) ==
  [h EXCEPT !.isTracking = FALSE, !.sessionId = 0,
            !.sessionCreditsUsed = 0, !.sessionSecondsUsed = 0]

\* stopTracking as closed over sessionId = sid, run to its first await: the
\* interval in the ref is cleared; with a sessionId the endSession mutation is
\* sent and the rest waits for it (done = FALSE); with sessionId null nothing
\* is sent and the state is reset at once (done = TRUE).  notify tells whether
\* the caller goes on to onCreditsDepletedCallback.
stopTracking(h, tm, q, sid, notify) ==
  LET h1 == [h EXCEPT !.intervalRef = 0]
      tm1 == clearIntervalRef(tm, h)
  IN IF sid # 0
       THEN [hook |-> h1, timers |-> tm1,
             queue |-> Append(q, Request("end", 0, 0, sid, notify)),
             done |-> FALSE]
       ELSE [hook |-> resetState(h1), timers |-> tm1, queue |-> q, done |-> TRUE]

\* the start requests of the client the backend has not run yet
UnservedStarts == {k \in 1..Len(queue) : queue[k].kind = "start" /\ ~queue[k].served}
UnservedTicks == {k \in 1..Len(queue) : queue[k].kind = "tick" /\ ~queue[k].served}

\* RoomMonitor's effect (MainScreen.tsx:121-123) calls startTracking of the
\* last render when that render's isTracking is false; startTracking runs to
\* its await of the startSession mutation.
CallStartTracking ==
  /\ ~hook.rIsTracking
  /\ startCalls < MaxStartCalls
  /\ Len(queue) < MaxQueue
  /\ Len(sessions) + Cardinality(UnservedStarts) < MaxSessions
  /\ startCalls' = startCalls + 1
  /\ timers' = IF hook.intervalRef # 0 THEN clearIntervalRef(timers, hook) ELSE timers
  /\ hook' = [hook EXCEPT !.intervalRef = 0]
  /\ queue' = IF hook.rIsTracking THEN queue
              ELSE Append(queue, Request("start", startCalls + 1, hook.rSessionId, 0, FALSE))
  /\ last' = [op |-> "startTracking", ok |-> TRUE, err |-> "", ret |-> NoRet]
  /\ UNCHANGED dbVars

\* a call of the last render's stopTracking from outside the interval
StopTrackingCalled(reason) ==
  /\ hook.rIsTracking
  /\ Len(queue) < MaxQueue
  /\ LET st == stopTracking(hook, timers, queue, hook.rSessionId, FALSE) IN
       /\ hook' = st.hook
       /\ timers' = st.timers
       /\ queue' = st.queue
  /\ last' = [op |-> reason, ok |-> TRUE, err |-> "", ret |-> NoRet]
  /\ UNCHANGED <<dbVars, startCalls>>

\* RoomMonitor's effect (MainScreen.tsx:125-127): recording went off
CallStopTracking == StopTrackingCalled("stopTracking")

\* handleConnectionStateChange(Disconnected) of the last render: stopTracking
\* is called when that render's isTracking is true, and nothing is done
\* otherwise (tracking records which)
DisconnectObserved ==
  /\ hook.rIsTracking => Len(queue) < MaxQueue
  /\ LET st == stopTracking(hook, timers, queue, hook.rSessionId, FALSE) IN
       IF hook.rIsTracking
         THEN /\ hook' = st.hook
              /\ timers' = st.timers
              /\ queue' = st.queue
         ELSE UNCHANGED <<hook, timers, queue>>
  /\ last' = [op |-> "disconnected", ok |-> TRUE, err |-> "", ret |-> NoRet,
              tracking |-> hook.rIsTracking]
  /\ UNCHANGED <<dbVars, startCalls>>

\* React commits the pending state: the next callbacks close over it
Render ==
  /\ hook.rIsTracking # hook.isTracking \/ hook.rSessionId # hook.sessionId
  /\ hook' = [hook EXCEPT !.rIsTracking = hook.isTracking,
                          !.rSessionId = hook.sessionId]
  /\ last' = [op |-> "render", ok |-> TRUE, err |-> "", ret |-> NoRet]
  /\ UNCHANGED <<dbVars, timers, queue, startCalls>>

\* a live interval fires: its callback sends updateFractionalCredits
TimerFire ==
  \E t \in timers :
    /\ Len(queue) < MaxQueue
    /\ \A i \in activeSessionsOf(DB, HookUser) :
         sessions[i].secondsUsed + tickSeconds * (Cardinality(UnservedTicks) + 1)
           <= MaxSeconds
    /\ queue' = Append(queue, Request("tick", t.id, t.capSid, 0, TRUE))
    /\ last' = [op |-> "intervalFired", ok |-> TRUE, err |-> "", ret |-> NoRet]
    /\ UNCHANGED <<dbVars, hook, timers, startCalls>>

\* the backend runs the oldest mutation of the client it has not run yet
Serve(kind, op, args, txn) ==
  \E k \in 1..Len(queue) :
    /\ queue[k].kind = kind
    /\ ~queue[k].served
    /\ \A j \in 1..(k - 1) : queue[j].served
    /\ queue' = [queue EXCEPT ![k] = [@ EXCEPT !.served = TRUE, !.ok = txn.ok,
                                               !.err = txn.err, !.ret = txn.ret]]
    /\ Apply(op, args, txn)
    /\ UNCHANGED <<ledgerCalls, hook, timers, startCalls>>

FirstUnserved ==
  CHOOSE k \in 1..Len(queue) : ~queue[k].served /\ \A j \in 1..(k - 1) : queue[j].served

ServeStartSession ==
  Serve("start", "startSession", [clerkId |-> HookUser],
        startSession(DB, HookUser, now))

ServeUpdateFractionalCredits ==
  Serve("tick", "updateFractionalCredits",
        [clerkId |-> HookUser, secondsToAdd |-> tickSeconds],
        updateFractionalCredits(DB, HookUser, tickSeconds, now))

ServeEndSession ==
  /\ \E k \in 1..Len(queue) : ~queue[k].served
  /\ Serve("end", "endSession", [sessionId |-> queue[FirstUnserved].sid],
           endSession(DB, queue[FirstUnserved].sid, now))

\* the oldest mutation in flight has been run: its promise settles
Settled(kind) ==
  /\ queue # <<>>
  /\ Head(queue).kind = kind
  /\ Head(queue).served

\* startTracking after its await (lines 111-156, and the catch of 157-160)
StartResolved ==
  /\ Settled("start")
  /\ LET r == Head(queue) IN
       /\ IF r.ok
            THEN /\ hook' = [hook EXCEPT !.sessionId = r.ret.sessionId,
                                         !.isTracking = TRUE,
                                         !.sessionCreditsUsed = startCreditsShown,
                                         !.sessionSecondsUsed = minimumSeconds,
                                         !.intervalRef = r.id]
                 /\ timers' = timers \cup {[id |-> r.id, capSid |-> r.capSid]}
            ELSE UNCHANGED <<hook, timers>>
       /\ last' = [op |-> "startResolved", ok |-> r.ok, err |-> r.err, ret |-> r.ret]
  /\ queue' = Tail(queue)
  /\ UNCHANGED <<dbVars, startCalls>>

\* the interval callback after its await (lines 133-153)
TickResolved ==
  /\ Settled("tick")
  /\ LET r == Head(queue)
         h1 == IF r.ok
                 THEN [hook EXCEPT !.sessionCreditsUsed = r.ret.sessionCreditsUsed,
                                   !.sessionSecondsUsed = r.ret.secondsUsed]
                 ELSE hook
         stops == ~r.ok \/ r.ret.creditsRemaining <= depletionCutoff
         st == stopTracking(h1, timers, Tail(queue), r.capSid, TRUE)
     IN
       /\ hook' = IF stops THEN st.hook ELSE h1
       /\ timers' = IF stops THEN st.timers ELSE timers
       /\ queue' = IF stops THEN st.queue ELSE Tail(queue)
       /\ last' = [op |-> "tickResolved", ok |-> r.ok, err |-> r.err, ret |-> r.ret,
                   stopped |-> stops, notified |-> stops /\ st.done]
  /\ UNCHANGED <<dbVars, startCalls>>

\* stopTracking after its await of endSession (lines 47-57), and the
\* onCreditsDepletedCallback of the interval callback that awaited it
EndResolved ==
  /\ Settled("end")
  /\ LET r == Head(queue) IN
       /\ hook' = resetState(hook)
       /\ last' = [op |-> "stopResolved", ok |-> r.ok, err |-> r.err, ret |-> r.ret,
                   stopped |-> TRUE, notified |-> r.notify]
  /\ queue' = Tail(queue)
  /\ UNCHANGED <<dbVars, timers, startCalls>>

\* The client and the backend serving it.
NextHook ==
  \/ AdvanceClock
  \/ CallStartTracking
  \/ CallStopTracking
  \/ DisconnectObserved
  \/ Render
  \/ TimerFire
  \/ ServeStartSession
  \/ ServeUpdateFractionalCredits
  \/ ServeEndSession
  \/ StartResolved
  \/ TickResolved
  \/ EndResolved

SpecHook == Init /\ [][NextHook]_vars

\* The error of a mutation the platform failed without running its handler to
\* the end (the promise of updateFractionalCredits rejects, nothing is written).
serverError == "Server Error"

\* the oldest mutation of the client the backend has not run is a tick, and
\* the call fails for a reason of the platform: the interval callback's await
\* (useTrackUsage.tsx:128-131) rejects and its catch runs
RejectUpdateFractionalCredits ==
  /\ \E k \in 1..Len(queue) :
       /\ queue[k].kind = "tick"
       /\ ~queue[k].served
       /\ \A j \in 1..(k - 1) : queue[j].served
       /\ queue' = [queue EXCEPT ![k] = [@ EXCEPT !.served = TRUE, !.ok = FALSE,
                                                  !.err = serverError]]
  /\ last' = [op |-> "updateFractionalCredits",
              args |-> [clerkId |-> HookUser, secondsToAdd |-> tickSeconds],
              ok |-> FALSE, err |-> serverError, ret |-> NoRet]
  /\ UNCHANGED <<dbVars, hook, timers, startCalls>>

\* The client and a backend that may fail a tick.
NextHookFaulty ==
  \/ NextHook
  \/ RejectUpdateFractionalCredits

SpecHookFaulty == Init /\ [][NextHookFaulty]_vars

\* The backend runs every mutation it was sent, every promise settles, React
\* commits every pending state and a live interval keeps firing; what the
\* user and the room do is left open.
FairHook ==
  /\ WF_vars(ServeStartSession)
  /\ WF_vars(ServeUpdateFractionalCredits)
  /\ WF_vars(ServeEndSession)
  /\ WF_vars(StartResolved)
  /\ WF_vars(TickResolved)
  /\ WF_vars(EndResolved)
  /\ WF_vars(Render)
  /\ WF_vars(TimerFire)

SpecHookLive == SpecHook /\ FairHook

\* ------------------------------------------------------------------ claims

\* a step in which the backend ran the mutation op for the account c
StepOf(op, c) == last'.op = op /\ last'.args.clerkId = c

\* C1: after every committed mutation, in any interleaving of startSession,
\* ticks, endSession, deductCredits, confirmPayment and addCredits with
\* positive amounts, every account's balance is at least zero.
C1_BalanceNeverNegative ==
  \A c \in Registered : users[c].credits >= 0

\* a tick has just brought a balance to exactly zero
C1_Witness ==
  /\ last.op = "updateFractionalCredits" /\ last.ok
  /\ users[last.args.clerkId].credits = 0

\* C2: no account ever has more than one session with isActive = true.
C2_AtMostOneActiveSession ==
  \A c \in ClerkIds : Cardinality(activeSessionsOf(DB, c)) <= 1

\* a start has superseded the account's active session
C2_Witness ==
  /\ last.op = "startSession" /\ last.ok
  /\ Len(sessions) = 2
  /\ sessions[1].userId = sessions[2].userId
  /\ ~sessions[1].isActive /\ sessions[1].endedAt = {now}
  /\ sessions[2].isActive

\* C3: a tick never changes a finalized session, and when the account has
\* sessions but none of them is active (no new session was started after the
\* close) the tick fails and leaves the balance as it was.
C3_NoTickAfterClose ==
  [][\A c \in Registered :
       StepOf("updateFractionalCredits", c) =>
         /\ \A i \in 1..Len(sessions) :
              ~sessions[i].isActive => sessions'[i] = sessions[i]
         /\ ( /\ activeSessionsOf(DB, c) = {}
              /\ \E i \in 1..Len(sessions) : sessions[i].userId = c )
            => /\ ~last'.ok
               /\ users' = users
               /\ sessions' = sessions]_vars

\* a tick was refused because the account's session had been closed
C3_Witness ==
  /\ last.op = "updateFractionalCredits" /\ ~last.ok
  /\ last.err = "No active session found"
  /\ \E i \in 1..Len(sessions) :
       /\ sessions[i].userId = last.args.clerkId
       /\ ~sessions[i].isActive
  /\ users[last.args.clerkId].credits >= minimumCharge

\* C4: startSession on an account with balance b >= 0.05 succeeds, leaves the
\* balance at b - 0.05 and inserts a session with isActive = true,
\* secondsUsed = 3, creditsUsed = 0.05 and no endedAt.
C4_StartDebitsMinimumCharge ==
  [][\A c \in Registered :
       (StepOf("startSession", c) /\ users[c].credits >= 5) =>
         /\ last'.ok
         /\ users'[c].credits = users[c].credits - 5
         /\ Len(sessions') = Len(sessions) + 1
         /\ last'.ret.sessionId = Len(sessions')
         /\ LET s == sessions'[Len(sessions')] IN
              /\ s.userId = c
              /\ s.isActive
              /\ s.secondsUsed = 3
              /\ s.creditsUsed = 5
              /\ s.endedAt = {}]_vars

\* a start from a balance of exactly 0.05 has left 0.00
C4_Witness ==
  /\ last.op = "startSession" /\ last.ok
  /\ users[last.args.clerkId].credits = 0
  /\ metered[last.args.clerkId].startBalance = 5
  /\ sessions[last.ret.sessionId].isActive

\* C5: startSession on an account with a balance below 0.05 fails with an
\* insufficient-credits error, inserts no session and changes no row.
C5_StartRefusedBelowMinimum ==
  [][\A c \in Registered :
       (StepOf("startSession", c) /\ users[c].credits < 5) =>
         /\ ~last'.ok
         /\ last'.err \in {"Insufficient credits",
                           "Insufficient credits. Minimum 0.05 credits required"}
         /\ sessions' = sessions
         /\ users' = users]_vars

\* a start was refused at a positive balance while a session was active
C5_Witness ==
  /\ last.op = "startSession" /\ ~last.ok
  /\ last.err = "Insufficient credits. Minimum 0.05 credits required"
  /\ users[last.args.clerkId].credits \in 1..4
  /\ activeSessionsOf(DB, last.args.clerkId) # {}

Undisturbed == startCalls = 1 /\ queue = <<>>

\* C7: after a successful tick the client stops the session for depletion
\* exactly when the balance the tick returned is at most 0.05.
C7_StopsIffAtMostOneTickLeft ==
  (last.op = "tickResolved" /\ last.ok) =>
    (last.stopped <=> last.ret.creditsRemaining <= 5)

CapturedSessionIdIsNull == \A t \in timers : t.capSid = 0

\* a step in which the backend ran endSession for the session sid
EndStepOf(sid) == last'.op = "endSession" /\ last'.args.sessionId = sid

\* the final usage an endSession call returned, <<>> when it returned nothing
FinalUsage(r) ==
  IF "creditsUsed" \in DOMAIN r THEN <<r.creditsUsed, r.secondsUsed>> ELSE <<>>

\* C11: endSession on a session that is already closed is not an error, leaves
\* the session rows and the balances as they were, and when it follows the
\* call that closed the session it returns the same creditsUsed and
\* secondsUsed as that call.
C11_EndSessionIdempotent ==
  [][\A sid \in 1..Len(sessions) :
       (EndStepOf(sid) /\ ~sessions[sid].isActive) =>
         /\ last'.ok
         /\ sessions' = sessions
         /\ users' = users
         /\ (last.op = "endSession" /\ last.ok /\ last.args.sessionId = sid)
              => FinalUsage(last'.ret) = FinalUsage(last.ret)]_vars

\* seconds / 60 credits is c hundredths to the nearest hundredth
RoundsTo(seconds, c) == 6 * c - 3 <= 10 * seconds /\ 10 * seconds < 6 * c + 3

\* C12: endSession on an active session sets isActive = false and endedAt,
\* records secondsUsed = max(tick-accumulated secondsUsed, whole seconds since
\* startedAt) and creditsUsed = max(0.05, secondsUsed / 60 to two decimals),
\* and returns both.
C12_EndSessionFinalValues ==
  [][\A sid \in 1..Len(sessions) :
       (EndStepOf(sid) /\ sessions[sid].isActive) =>
         LET old == sessions[sid]
             new == sessions'[sid]
             elapsed == now - old.startedAt
         IN /\ last'.ok
            /\ ~new.isActive
            /\ new.endedAt = {now}
            /\ new.secondsUsed >= old.secondsUsed /\ new.secondsUsed >= elapsed
            /\ new.secondsUsed \in {old.secondsUsed, elapsed}
            /\ new.creditsUsed >= 5
            /\ \E r \in 0..(2 * new.secondsUsed + 1) :
                 /\ RoundsTo(new.secondsUsed, r)
                 /\ new.creditsUsed \in {5, r}
                 /\ new.creditsUsed >= r
            /\ FinalUsage(last'.ret) = <<new.creditsUsed, new.secondsUsed>>]_vars

\* a session with 3 seconds ticked was ended 4 seconds after its start:
\* secondsUsed 4, creditsUsed 0.07
C12_Witness ==
  /\ last.op = "endSession" /\ last.ok /\ last.ret # NoRet
  /\ LET s == sessions[last.args.sessionId] IN
       /\ ~s.isActive
       /\ now - s.startedAt = 4
       /\ s.secondsUsed = 4
       /\ s.creditsUsed = 7

\* C13: endSession never changes an account: every users row is after the
\* call what it was before, also when the wall-clock reconciliation raises
\* the session's creditsUsed above what the start and the ticks debited.
C13_EndSessionKeepsBalance ==
  [][last'.op = "endSession" => users' = users]_vars

\* the reconciliation has raised creditsUsed to 0.07 on a session that was
\* debited 0.05, and the balance is the start balance less 0.05
C13_Witness ==
  /\ last.op = "endSession" /\ last.ok /\ last.ret # NoRet
  /\ last.ret.creditsUsed = 7
  /\ LET s == sessions[last.args.sessionId]
         m == metered[s.userId]
     IN /\ m.clean /\ m.sessionId = last.args.sessionId /\ m.ticks = 0
        /\ users[s.userId].credits = m.startBalance - 5

\* C14: startSession on an account that has an active session and at least
\* 0.05 credits succeeds; the session that was active is closed with endedAt
\* set and creditsUsed >= 0.05, and the new session is the account's only
\* active one.
C14_StartSupersedesActiveSession ==
  [][\A c \in Registered :
       ( /\ StepOf("startSession", c)
         /\ activeSessionsOf(DB, c) # {}
         /\ users[c].credits >= 5 ) =>
         /\ last'.ok
         /\ \A i \in activeSessionsOf(DB, c) :
              /\ ~sessions'[i].isActive
              /\ sessions'[i].endedAt # {}
              /\ sessions'[i].creditsUsed >= 5
         /\ {i \in 1..Len(sessions') :
               sessions'[i].userId = c /\ sessions'[i].isActive}
              = {last'.ret.sessionId}]_vars

\* a start has closed a session that had been ticked once
C14_Witness ==
  /\ last.op = "startSession" /\ last.ok
  /\ last.ret.sessionId = 2
  /\ sessions[1].userId = last.args.clerkId
  /\ ~sessions[1].isActive /\ sessions[1].endedAt # {}
  /\ sessions[1].creditsUsed = 10
  /\ activeSessionsOf(DB, last.args.clerkId) = {2}

\* C18: a session that was started at balance b and then closed by endSession
\* before any tick leaves the balance at b - 0.05, and the closed session has
\* creditsUsed >= 0.05 and secondsUsed >= 3.
C18_MinimumChargeUnconditional ==
  \A c \in Registered :
    LET m == metered[c] IN
    (m.clean /\ m.ticks = 0 /\ ~sessions[m.sessionId].isActive) =>
      /\ users[c].credits = m.startBalance - 5
      /\ sessions[m.sessionId].creditsUsed >= 5
      /\ sessions[m.sessionId].secondsUsed >= 3

\* a session was ended in the second it was started in, with no tick
C18_Witness ==
  /\ last.op = "endSession" /\ last.ok /\ last.ret # NoRet
  /\ LET s == sessions[last.args.sessionId]
         m == metered[s.userId]
     IN /\ m.clean /\ m.sessionId = last.args.sessionId /\ m.ticks = 0
        /\ s.endedAt = {s.startedAt}
        /\ s.creditsUsed = 5 /\ s.secondsUsed = 3
        /\ users[s.userId].credits = m.startBalance - 5

\* the credits of the purchases of the account c whose status is in statuses
RECURSIVE CreditsOfPurchases(_, _, _)
CreditsOfPurchases(c, statuses, n) ==
  IF n = 0 THEN 0
  ELSE CreditsOfPurchases(c, statuses, n - 1)
         + IF purchases[n].userId = c /\ purchases[n].status \in statuses
             THEN purchases[n].credits ELSE 0

\* a step in which the backend ran confirmPayment for the purchase p
ConfirmStepOf(p) == last'.op = "confirmPayment" /\ last'.args.purchaseId = p

\* C15: whatever confirmPayment and markPaymentFailed calls a purchase has
\* had, its credits are in totalCreditsEverPurchased at most once, and once
\* when its status is completed; and the balance a confirmPayment returns
\* is at most the balance before any purchase (credits less the lifetime
\* total) plus the credits of the purchase.
C15_CreditsAppliedAtMostOnce ==
  /\ \A c \in Registered :
       /\ users[c].totalCreditsEverPurchased
            <= CreditsOfPurchases(c, {"pending", "completed", "failed"}, Len(purchases))
       /\ users[c].totalCreditsEverPurchased
            >= CreditsOfPurchases(c, {"completed"}, Len(purchases))
  /\ \A p \in 1..Len(purchases) :
       (last.op = "confirmPayment" /\ last.ok /\ last.args.purchaseId = p) =>
         last.ret.newBalance
           <= users[purchases[p].userId].credits
                - users[purchases[p].userId].totalCreditsEverPurchased
                + purchases[p].credits

\* C16: confirmPayment on a purchase whose status is completed changes no
\* users row and no creditPurchases row.
C16_ConfirmCompletedIsNoOp ==
  [][\A p \in 1..Len(purchases) :
       (ConfirmStepOf(p) /\ purchases[p].status = "completed") =>
         /\ users' = users
         /\ purchases' = purchases]_vars

\* a completed purchase was confirmed again and the call was refused
C16_Witness ==
  /\ last.op = "confirmPayment" /\ ~last.ok
  /\ last.err = "Purchase already completed"
  /\ purchases[last.args.purchaseId].status = "completed"
  /\ users[purchases[last.args.purchaseId].userId].totalCreditsEverPurchased
       = purchases[last.args.purchaseId].credits

\* C17: confirmPayment on a pending purchase of c credits for an account with
\* balance b succeeds, sets the status to completed, the balance to b + c and
\* totalCreditsEverPurchased c higher, touches nothing else and returns b + c.
C17_ConfirmPendingAppliesCredits ==
  [][\A p \in 1..Len(purchases) :
       (ConfirmStepOf(p) /\ purchases[p].status = "pending") =>
         LET u == purchases[p].userId
             c == purchases[p].credits
         IN /\ last'.ok
            /\ purchases' = [purchases EXCEPT ![p].status = "completed"]
            /\ users' = [users EXCEPT
                           ![u].credits = users[u].credits + c,
                           ![u].totalCreditsEverPurchased =
                              users[u].totalCreditsEverPurchased + c]
            /\ last'.ret.newBalance = users[u].credits + c
            /\ last'.ret.creditsAdded = c]_vars

\* the 30-credit package confirmed on a balance of 2.00: balance 32.00,
\* lifetime purchases 30
C17_Witness ==
  /\ last.op = "confirmPayment" /\ last.ok
  /\ LET q == purchases[last.args.purchaseId] IN
       /\ q.status = "completed"
       /\ q.credits = 3000 /\ q.amount = 400
       /\ users[q.userId].credits = 3200
       /\ users[q.userId].totalCreditsEverPurchased = 3000
       /\ last.ret.newBalance = 3200

\* the start requests of the client that are in flight
StartInFlight == \E k \in 1..Len(queue) : queue[k].kind = "start"

\* the client is metering: a start is in flight, or its account has an
\* active session
MeteringActive == StartInFlight \/ activeSessionsOf(DB, HookUser) # {}

\* no interval is live and the account has no active session
MeteringFinalized == timers = {} /\ activeSessionsOf(DB, HookUser) = {}

TrackedDisconnectFinalizes ==
  (last.op = "disconnected" /\ last.tracking /\ MeteringActive /\ startCalls = 1)
    ~> (MeteringFinalized \/ startCalls > 1)

\* the tick requests of the interval id that have not returned yet
TicksInFlight(id) == {k \in 1..Len(queue) : queue[k].kind = "tick" /\ queue[k].id = id}

\* C20: an interval never has two tick requests in flight: the next tick is
\* not sent before the previous one has returned.
C20_TicksNeverOverlap ==
  \A id \in 1..MaxStartCalls : Cardinality(TicksInFlight(id)) <= 1

\* C21: deductCredits of the amount a on an account with balance b fails with
\* "Insufficient credits" and changes nothing when b < a; otherwise it
\* succeeds, stores b - a rounded to the nearest hundredth and returns it.
C21_DeductCredits ==
  [][\A c \in Registered :
       StepOf("deductCredits", c) =>
         LET a == last'.args.credits
             exact == 10 * users[c].credits - a
         IN IF exact < 0
              THEN /\ ~last'.ok
                   /\ last'.err = "Insufficient credits"
                   /\ users' = users
              ELSE /\ last'.ok
                   /\ 10 * last'.ret.newBalance - exact \in -5..5
                   /\ users' = [users EXCEPT ![c].credits = last'.ret.newBalance]]_vars

\* 0.046 was debited from 0.05 and the stored balance was rounded down to 0.00
C21_Witness ==
  /\ last.op = "deductCredits" /\ last.ok
  /\ last.args.credits = 46
  /\ last.ret.newBalance = 0
  /\ users[last.args.clerkId].credits = 0

\* 0.046 was refused on a balance of 0.04
C21_WitnessRefused ==
  /\ last.op = "deductCredits" /\ ~last.ok
  /\ last.err = "Insufficient credits"
  /\ last.args.credits = 46
  /\ users[last.args.clerkId].credits = 4

\* C22: the client never has more than one interval live, also when
\* startTracking was called twice before the first start request returned,
\* and no interval is live right after a call of stopTracking.
C22_SingleTimer ==
  /\ Cardinality(timers) <= 1
  /\ last.op = "stopTracking" => timers = {}

\* C23: a closed session that was started at balance b and ticked n times,
\* whenever its stop was requested, has every debited tick in its usage:
\* secondsUsed >= 3 + 3n and creditsUsed >= 0.05 + 0.05n, while the balance
\* is b - 0.05(n + 1): a tick in flight at the stop is either in both or in
\* neither.
C23_NoTickLostAtStop ==
  \A c \in Registered :
    LET m == metered[c] IN
    (m.clean /\ ~sessions[m.sessionId].isActive) =>
      /\ sessions[m.sessionId].secondsUsed >= 3 + 3 * m.ticks
      /\ sessions[m.sessionId].creditsUsed >= 5 + 5 * m.ticks
      /\ users[c].credits = m.startBalance - 5 * (m.ticks + 1)

\* the stop was requested while a tick was in flight: the tick was debited,
\* then endSession closed the session with the tick in its final usage
C23_Witness ==
  /\ Len(queue) = 2
  /\ queue[1].kind = "tick" /\ queue[1].served /\ queue[1].ok
  /\ queue[2].kind = "end" /\ queue[2].served /\ queue[2].ok
  /\ queue[2].ret # NoRet
  /\ queue[2].ret.secondsUsed = queue[1].ret.secondsUsed
  /\ LET m == metered[HookUser] IN
       /\ m.clean /\ m.ticks = 1 /\ m.sessionId = queue[2].sid
       /\ ~sessions[m.sessionId].isActive
       /\ sessions[m.sessionId].secondsUsed = 6
       /\ users[HookUser].credits = m.startBalance - 10

\* the stop overtook nothing: a tick sent after the session was closed is
\* refused and debits nothing
C23_WitnessRefused ==
  /\ last.op = "updateFractionalCredits" /\ ~last.ok
  /\ last.err = "No active session found"
  /\ LET m == metered[HookUser] IN
       /\ m.clean /\ m.sessionId # 0 /\ ~sessions[m.sessionId].isActive
       /\ users[HookUser].credits = m.startBalance - 5 * (m.ticks + 1)

\* what the mutation of the step says it did to the balance of the account c,
\* in hundredths: a successful start debits 0.05, a successful tick
\* secondsToAdd / 60, a successful deductCredits its amount (thousandths), a
\* successful addCredits or confirmPayment credits its amount; a failed call
\* and a call for another account nothing
AppliedTo(c) ==
  LET l == last' IN
  IF ~l.ok THEN 0
  ELSE IF l.op = "startSession" /\ l.args.clerkId = c THEN -5
  ELSE IF l.op = "updateFractionalCredits" /\ l.args.clerkId = c
    THEN -((100 * l.args.secondsToAdd) \div 60)
  ELSE IF l.op = "deductCredits" /\ l.args.clerkId = c THEN -(l.args.credits \div 10)
  ELSE IF l.op = "addCredits" /\ l.args.clerkId = c THEN l.args.credits
  ELSE IF l.op = "confirmPayment" /\ purchases[l.args.purchaseId].userId = c
    THEN purchases[l.args.purchaseId].credits
  ELSE 0

\* C24: in any interleaving of starts, ticks, debits, credits and purchase
\* completions on an account, every step moves the balance by exactly what
\* its mutation applied, so that the balance is at all times the initial
\* balance less the successful debits plus the applied credits.
C24_NoLostUpdate ==
  [][\A c \in Registered :
       users'[c].credits = users[c].credits + AppliedTo(c)]_vars

\* 10.00 at the start, a session start, one tick, a debit of 0.03 and a
\* completed purchase of 10 credits: 19.87
C24_Witness ==
  /\ last.op = "confirmPayment" /\ last.ok
  /\ ledgerCalls = 1
  /\ users["u1"].totalCreditsEverPurchased = 1000
  /\ \E i \in 1..Len(sessions) : sessions[i].userId = "u1" /\ sessions[i].secondsUsed = 6
  /\ Len(sessions) = 1
  /\ users["u1"].credits = 1000 - 5 - 5 - 3 + 1000

\* C25: in every reachable state every session has
\* creditsUsed = max(0.05, secondsUsed / 60 to the nearest hundredth).
C25_CreditsMatchSeconds ==
  \A i \in 1..Len(sessions) :
    LET s == sessions[i] IN
    /\ s.creditsUsed >= 5
    /\ \E r \in 0..(2 * s.secondsUsed + 1) :
         /\ RoundsTo(s.secondsUsed, r)
         /\ s.creditsUsed \in {5, r}
         /\ s.creditsUsed >= r

\* a session closed at 4 seconds and 0.07 credits beside an active one at
\* 6 seconds and 0.10 credits
C25_Witness ==
  /\ Len(sessions) = 2
  /\ ~sessions[1].isActive
  /\ sessions[1].secondsUsed = 4 /\ sessions[1].creditsUsed = 7
  /\ sessions[2].isActive
  /\ sessions[2].secondsUsed = 6 /\ sessions[2].creditsUsed = 10

\* C26: across every step no session's secondsUsed or creditsUsed decreases,
\* and a session that is closed is not changed at all.
C26_UsageMonotonic ==
  [][\A i \in 1..Len(sessions) :
       /\ sessions'[i].secondsUsed >= sessions[i].secondsUsed
       /\ sessions'[i].creditsUsed >= sessions[i].creditsUsed
       /\ ~sessions[i].isActive => sessions'[i] = sessions[i]]_vars

\* endSession was called on a session closed 4 seconds earlier
C26_Witness ==
  /\ last.op = "endSession" /\ last.ok /\ last.ret = NoRet
  /\ LET s == sessions[last.args.sessionId] IN
       /\ ~s.isActive
       /\ s.endedAt = {now - 4}
       /\ s.secondsUsed = 3

\* C27: every closed session has endedAt set and a secondsUsed of at least
\* the whole seconds from startedAt to endedAt.
C27_ClosedSessionCoversWallClock ==
  \A i \in 1..Len(sessions) :
    ~sessions[i].isActive =>
      /\ sessions[i].endedAt # {}
      /\ \A e \in sessions[i].endedAt :
           sessions[i].secondsUsed >= e - sessions[i].startedAt

\* the same for the sessions a later start has not closed
ClosedByEndSessionCoversWallClock ==
  [][\A i \in 1..Len(sessions) :
       (EndStepOf(i) /\ sessions[i].isActive) =>
         \A e \in sessions'[i].endedAt :
           sessions'[i].secondsUsed >= e - sessions'[i].startedAt]_vars

\* C28: once a purchase is completed or failed its status never changes:
\* no confirmPayment or markPaymentFailed call moves a completed purchase to
\* failed or a failed purchase to completed.
C28_StatusImmutable ==
  [][\A p \in 1..Len(purchases) :
       purchases[p].status \in {"completed", "failed"} =>
         purchases'[p].status = purchases[p].status]_vars

\* a step in which the backend ran markPaymentFailed for the purchase p
FailStepOf(p) == last'.op = "markPaymentFailed" /\ last'.args.purchaseId = p

\* C29: markPaymentFailed sets the status of the purchase to failed and
\* changes no other row, and a purchase whose status is failed has put no
\* credits on its account: the lifetime total is covered by the purchases
\* that are not failed.
C29_FailedContributesNothing ==
  /\ \A p \in 1..Len(purchases) :
       (last.op = "markPaymentFailed" /\ last.args.purchaseId = p) =>
         purchases[p].status = "failed"
  /\ \A c \in Registered :
       users[c].totalCreditsEverPurchased
         <= CreditsOfPurchases(c, {"pending", "completed"}, Len(purchases))

\* the frame of markPaymentFailed alone: the status is failed afterwards and
\* nothing else has changed
MarkPaymentFailedFrame ==
  [][\A p \in 1..Len(purchases) :
       FailStepOf(p) =>
         /\ last'.ok
         /\ purchases' = [purchases EXCEPT ![p].status = "failed"]
         /\ users' = users
         /\ sessions' = sessions]_vars

\* every step that raises the balance of an account is a confirmPayment that
\* moves a purchase of the account to completed
BalanceRaisedOnlyByCompletion ==
  [][\A c \in Registered :
       users'[c].credits > users[c].credits =>
         /\ last'.op = "confirmPayment" /\ last'.ok
         /\ purchases[last'.args.purchaseId].userId = c
         /\ purchases[last'.args.purchaseId].status # "completed"
         /\ purchases'[last'.args.purchaseId].status = "completed"]_vars

\* the credits of the completed purchases of every account add up to its
\* totalCreditsEverPurchased
CompletedPurchasesAreLifetimeTotal ==
  \A c \in Registered :
    users[c].totalCreditsEverPurchased
      = CreditsOfPurchases(c, {"completed"}, Len(purchases))

\* C30: every step that raises the balance of an account is a confirmPayment
\* that moves a purchase of the account to completed, and the credits of the
\* completed purchases of an account add up to its totalCreditsEverPurchased.
C30_OnlyCompletionCredits ==
  BalanceRaisedOnlyByCompletion /\ []CompletedPurchasesAreLifetimeTotal

\* the account a step credited: a successful addCredits for c, or a
\* successful confirmPayment of a purchase of c
CreditedTo(c) ==
  /\ last'.ok
  /\ \/ last'.op = "addCredits" /\ last'.args.clerkId = c
     \/ last'.op = "confirmPayment" /\ purchases[last'.args.purchaseId].userId = c

\* C31: totalCreditsEverPurchased is never negative and no step lowers it; a
\* step of confirmPayment or addCredits that credits an account raises it by
\* exactly what the step adds to the balance, and every other step (session
\* start, tick, end, debit, purchase creation, failed call) leaves it as it is.
C31_LifetimeTotalMonotonic ==
  [][\A c \in Registered :
       LET rise == users'[c].totalCreditsEverPurchased
                     - users[c].totalCreditsEverPurchased
       IN /\ users[c].totalCreditsEverPurchased >= 0
          /\ users'[c].totalCreditsEverPurchased >= 0
          /\ rise >= 0
          /\ IF CreditedTo(c)
               THEN rise = users'[c].credits - users[c].credits
               ELSE rise = 0]_vars

\* both credit paths have acted on one account: addCredits of 0.10 and the
\* completion of a 10-credit purchase
C31_Witness ==
  /\ last.op \in {"addCredits", "confirmPayment"}
  /\ last.ok
  /\ \E c \in Registered, a \in AddAmounts :
       users[c].totalCreditsEverPurchased = a + creditPackages[1].credits

FailedTickCancelsTimer ==
  (/\ last.op = "tickResolved"
   /\ ~last.ok
   /\ last.err = serverError
   /\ Undisturbed)
    => timers = {} /\ hook.intervalRef = 0

\* the step just taken delivered onCreditsDepletedCallback
DepletionNotified ==
  /\ last.op \in {"tickResolved", "stopResolved"}
  /\ last.notified

\* C33: onCreditsDepletedCallback is delivered only by a tick that left the
\* balance at or below the cutoff or whose debit failed for insufficient
\* funds; a stop from outside the interval (explicit stop, disconnect) never
\* delivers it, whether or not a tick was in flight.
C33_NotifiedOnlyWhenDepleted ==
  DepletionNotified =>
    /\ last.op = "tickResolved"
    /\ \/ last.ok /\ last.ret.creditsRemaining <= depletionCutoff
       \/ ~last.ok /\ last.err = "Insufficient credits - session ended"

\* the part of C33 the hook does keep: stopTracking called from outside the
\* interval never goes on to the callback
OutsideStopNeverNotifies ==
  last.op = "stopResolved" => ~last.notified

\* the only session the client started is active, the client is metering it
\* and the balance no longer covers a tick the timer can still send
LastTickDue ==
  /\ startCalls = 1
  /\ hook.isTracking
  /\ timers # {}
  /\ users[HookUser].credits < minimumCharge
  /\ activeSessionsOf(DB, HookUser) # {}
  /\ \A i \in activeSessionsOf(DB, HookUser) :
       sessions[i].secondsUsed + tickSeconds <= MaxSeconds

DepletedTimerEventuallyCancelled ==
  LastTickDue ~> (timers = {} \/ startCalls > 1)

\* C35: a mutation that finds the balance a whole number of hundredths leaves
\* it one.  Start, tick and debit write Math.round(x * 100) / 100, which is
\* Double of the new balance; the completion of a purchase writes the sum
\* user.credits + purchase.credits, and the claim is that this double too is
\* the one nearest to the new number of hundredths.
C35_BalanceStaysWholeHundredths ==
  [][\A c \in Registered :
       (/\ last'.op = "confirmPayment"
        /\ last'.ok
        /\ purchases[last'.args.purchaseId].userId = c)
         => creditedBalance(users[c].credits,
                            purchases[last'.args.purchaseId].credits)
              = Double(users'[c].credits)]_vars

\* the part of C35 the arithmetic does keep: on a balance that is a multiple
\* of 0.05, as the grant, the packages and the session debits alone leave it,
\* the completion of a purchase writes a whole number of hundredths
MultipleOfFiveStaysWhole ==
  [][\A c \in Registered :
       (/\ last'.op = "confirmPayment"
        /\ last'.ok
        /\ purchases[last'.args.purchaseId].userId = c
        /\ users[c].credits % 5 = 0)
         => creditedBalance(users[c].credits,
                            purchases[last'.args.purchaseId].credits)
              = Double(users'[c].credits)]_vars

\* a step in which the backend ran createOrUpdateUser for the identity c
SignInOf(c) == last'.op = "createOrUpdateUser" /\ last'.args.clerkId = c

\* C36: the first createOrUpdateUser of an identity creates its account with
\* balance 10 and totalCreditsEverPurchased 0; every later one succeeds,
\* returns the same account and leaves its balance and its
\* totalCreditsEverPurchased as they are.  Neither touches another account,
\* a session or a purchase.
C36_GrantAppliedOnce ==
  [][\A c \in ClerkIds :
       SignInOf(c) =>
         /\ last'.ok
         /\ last'.ret.userId = c
         /\ users'[c].exists
         /\ IF users[c].exists
              THEN /\ users'[c].credits = users[c].credits
                   /\ users'[c].totalCreditsEverPurchased
                        = users[c].totalCreditsEverPurchased
              ELSE /\ users'[c].credits = freeCredits
                   /\ users'[c].totalCreditsEverPurchased = 0
         /\ \A d \in ClerkIds \ {c} : users'[d] = users[d]
         /\ sessions' = sessions
         /\ purchases' = purchases]_vars

\* an identity unknown at first has signed in, used part of its grant and
\* signed in again
C36_Witness ==
  /\ last.op = "createOrUpdateUser"
  /\ \E c \in ClerkIds \ Registered :
       /\ last.args.clerkId = c
       /\ users[c].exists
       /\ users[c].credits < freeCredits

\* C37: startSession, updateFractionalCredits and deductCredits for an
\* identity that has no account fail with "User not found" and write nothing:
\* every account, session and purchase is as before.
C37_UnknownAccountRefused ==
  [][\A c \in ClerkIds :
       (/\ last'.op \in {"startSession", "updateFractionalCredits", "deductCredits"}
        /\ last'.args.clerkId = c
        /\ ~users[c].exists)
         => /\ ~last'.ok
            /\ last'.err = "User not found"
            /\ users' = users
            /\ sessions' = sessions
            /\ purchases' = purchases]_vars

\* a debit was refused for an identity without an account while another
\* account had a session running
C37_Witness ==
  /\ last.op = "deductCredits"
  /\ ~last.ok
  /\ last.err = "User not found"
  /\ ~users[last.args.clerkId].exists
  /\ \E i \in 1..Len(sessions) : sessions[i].isActive

\* the mutation the backend ran last, while its promise has not settled
LastServed ==
  CHOOSE k \in 1..Len(queue) :
    queue[k].served /\ \A j \in (k + 1)..Len(queue) : ~queue[j].served

\* The interval set up by the k-th startTracking meters the session its
\* startSession returned; under SpecHook that is session k (a start fails only
\* for lack of funds, and no balance rises).
StartReturnsOwnSession ==
  \A k \in 1..Len(queue) :
    queue[k].kind = "start" /\ queue[k].served /\ queue[k].ok
      => queue[k].ret.sessionId = queue[k].id

\* C38: a tick the backend applied was charged to the session whose timer
\* sent it: the session it incremented (the account's active one) is the one
\* started by the startTracking call that set up that timer.
C38_TickChargesOwnSession ==
  (/\ last.op = "updateFractionalCredits"
   /\ last.ok
   /\ \E k \in 1..Len(queue) : queue[k].served)
    => (queue[LastServed].kind = "tick"
          => firstActive(DB, HookUser) = queue[LastServed].id)

\* C39: a startSession that finds a positive balance below 0.05 while a
\* session of the account is active fails for insufficient funds and leaves
\* that session as it was: still active, endedAt unset, usage unchanged.
C39_FailedStartKeepsActiveSession ==
  [][\A c \in Registered :
       (/\ StepOf("startSession", c)
        /\ users[c].credits > 0
        /\ users[c].credits < minimumCharge
        /\ activeSessionsOf(DB, c) # {})
         => /\ ~last'.ok
            /\ last'.err = "Insufficient credits. Minimum 0.05 credits required"
            /\ \A i \in activeSessionsOf(DB, c) :
                 /\ sessions'[i].isActive
                 /\ sessions'[i].endedAt = {}
                 /\ sessions'[i] = sessions[i]]_vars

\* a session that has been ticked down to a balance of 0.02 is still active
\* and open-ended after a start was refused
C39_Witness ==
  /\ last.op = "startSession"
  /\ ~last.ok
  /\ last.err = "Insufficient credits. Minimum 0.05 credits required"
  /\ users[last.args.clerkId].credits = 2
  /\ \E i \in activeSessionsOf(DB, last.args.clerkId) :
       sessions[i].secondsUsed = 6 /\ sessions[i].endedAt = {}

\* the usage the hook reports after a tick it applied is the usage the store
\* returned for that tick, and it is 0 once stopTracking has run to its end
ReportedUsageAfterTickAndStop ==
  /\ (last.op = "tickResolved" /\ last.ok /\ ~last.stopped)
       => /\ hook.sessionCreditsUsed = last.ret.sessionCreditsUsed
          /\ hook.sessionSecondsUsed = last.ret.secondsUsed
  /\ (\/ last.op = "stopResolved"
      \/ last.op = "tickResolved" /\ last.notified)
       => hook.sessionCreditsUsed = 0 /\ hook.sessionSecondsUsed = 0

\* C40: the usage the hook reports equals the store's usage of the session:
\* right after the only start has resolved (0.05 credits and 3 seconds in the
\* store), after every applied tick, and it is 0 once tracking has stopped.
C40_ReportedUsageMatchesStore ==
  /\ (last.op = "startResolved" /\ last.ok /\ startCalls = 1)
       => /\ hook.sessionCreditsUsed = sessions[last.ret.sessionId].creditsUsed
          /\ hook.sessionSecondsUsed = sessions[last.ret.sessionId].secondsUsed
  /\ ReportedUsageAfterTickAndStop

====
